---- MODULE Spec2Model ----
(***************************************************************************)
(* Model of the Cardano book image fetcher: main (src/main.rs), the        *)
(* collection verifier (src/services/bookio.rs), the metadata fetch        *)
(* orchestrator (src/services/blockfrost.rs), the URI resolver             *)
(* (src/utils/util.rs) and the download job (src/services/download.rs).    *)
(*                                                                         *)
(* Spec      the whole program: main, the orchestrator task, the fetch     *)
(*           tasks and the download tasks, interleaved.                    *)
(* FairSpec  Spec with weak fairness on every step of the program itself   *)
(*           (the tokio scheduler runs every ready task); the interrupt    *)
(*           is the operator's and is not fair.                            *)
(* SpecDL    one call of DownloadService::download_and_save, step by step, *)
(*           with the file system it acts on.                              *)
(***************************************************************************)
EXTENDS Integers, Sequences, FiniteSets, TLC

\* ------------------------------------------------------------------ bounds
MaxAssets == 3
MaxF == 2
MaxD == 2
MaxCatalog == 2

AssetIds == 1..MaxAssets

\* Collection ids are only compared for equality (bookio.rs 49): the id asked
\* for on the command line and one other id cover the catalog's cases.
RequestedIds == {"p1"}
CollectionIds == {"p1", "p2"}

\* ----------------------------------------------------------------- helpers
Range(s) == {s[i] : i \in 1..Len(s)}

SeqsUpTo(S, n) == UNION {[1..k -> S] : k \in 0..n}

\* Vec::reverse
Reverse(s) == [i \in 1..Len(s) |-> s[Len(s) + 1 - i]]

\* usize::saturating_sub
SaturatingSub(a, b) == IF a > b THEN a - b ELSE 0

\* str::starts_with
StartsWith(s, p) == Len(s) >= Len(p) /\ SubSeq(s, 1, Len(p)) = p

\* ------------------------------------------------------------ URI resolver
\* Strings are sequences of characters.
IPFS_PREFIX == <<"i", "p", "f", "s", ":", "/", "/">>
IPFS_GATEWAY == <<"h", "t", "t", "p", "s", ":", "/", "/", "i", "p", "f", "s", ".", "i", "o", "/", "i", "p", "f", "s", "/">>

\* ipfs_to_http testing the scheme name only, without the two slashes.
ipfs_to_http_scheme_only(ipfs_hash) ==
    IF StartsWith(ipfs_hash, SubSeq(IPFS_PREFIX, 1, Len(IPFS_PREFIX) - 2))
    THEN [ok |-> TRUE, url |-> IPFS_GATEWAY \o SubSeq(ipfs_hash, 8, Len(ipfs_hash))]
    ELSE [ok |-> FALSE, url |-> <<>>]

\* util.rs ipfs_to_http: Ok(gateway ++ ipfs_hash[7..]) or Err
ipfs_to_http(ipfs_hash) ==
    IF StartsWith(ipfs_hash, IPFS_PREFIX)
    THEN [ok |-> TRUE, url |-> IPFS_GATEWAY \o SubSeq(ipfs_hash, 8, Len(ipfs_hash))]
    ELSE [ok |-> FALSE, url |-> <<>>]

\* ---------------------------------------------------- metadata documents
\* What one metadata fetch can deliver: Err, or Ok(AssetDetails) with
\* onchain_metadata (Option), "files" (an array or not) and the first
\* descriptor's "src" (a string or not).
SrcIpfs == IPFS_PREFIX \o <<"Q", "m">>
SrcHttp == <<"h", "t", "t", "p", ":", "/", "/", "Q", "m">>

Descriptor(hasSrc, src) == [hasSrc |-> hasSrc, src |-> src]
Doc(res, onchain, isArray, files) ==
    [res |-> res, onchain |-> onchain, isArray |-> isArray, files |-> files]

DocErr == Doc("Err", FALSE, FALSE, <<>>)
DocNoOnchain == Doc("Ok", FALSE, FALSE, <<>>)
DocNoFiles == Doc("Ok", TRUE, FALSE, <<>>)
DocEmptyFiles == Doc("Ok", TRUE, TRUE, <<>>)
DocNoSrc == Doc("Ok", TRUE, TRUE, <<Descriptor(FALSE, <<>>)>>)
DocBadScheme == Doc("Ok", TRUE, TRUE, <<Descriptor(TRUE, SrcHttp)>>)
DocImage == Doc("Ok", TRUE, TRUE, <<Descriptor(TRUE, SrcIpfs)>>)

Docs == {DocErr, DocNoOnchain, DocNoFiles, DocEmptyFiles, DocNoSrc, DocBadScheme, DocImage}

\* Classify with the fetch result unwrapped instead of matched: an Err panics.
ClassifyUnwrap(doc) ==
    IF doc.res # "Ok" THEN "panic"
    ELSE IF ~doc.onchain THEN "invalid"
    ELSE IF ~doc.isArray THEN "invalid"
    ELSE IF Len(doc.files) = 0 THEN "panic"
    ELSE IF ~doc.files[1].hasSrc THEN "invalid"
    ELSE IF ~ipfs_to_http(doc.files[1].src).ok THEN "invalid"
    ELSE "valid"

\* blockfrost.rs 99-100, 128-129: the URL the download task is given.
DownloadUrl(doc) == ipfs_to_http(doc.files[1].src).url

\* blockfrost.rs 92-105: the nested if-lets of the receive loop.
\* "panic": files[0] on an empty array is an index out of bounds.
Classify(doc) ==
    IF doc.res # "Ok" THEN "invalid"
    ELSE IF ~doc.onchain THEN "invalid"
    ELSE IF ~doc.isArray THEN "invalid"
    ELSE IF Len(doc.files) = 0 THEN "panic"
    ELSE IF ~doc.files[1].hasSrc THEN "invalid"
    ELSE IF ~ipfs_to_http(doc.files[1].src).ok THEN "invalid"
    ELSE "valid"

\* ------------------------------------------------------ collection verifier
\* verify_policy_id testing only that the catalog holds some collection.
verify_any_collection(policy, collections) == Len(collections) > 0

\* bookio.rs 49: collections.iter().find(|col| col.collection_id == policy_id).is_some()
verify_policy_id(policy, collections) ==
    \E i \in 1..Len(collections) : collections[i] = policy

\* ------------------------------------------------------------------- state
VARIABLES
    policy_id,        \* main.rs Opt.policy_id
    F,                \* blockfrost.rs NUM_CONCURRENT_FETCHES
    D,                \* blockfrost.rs Semaphore::new(..)
    listing,          \* what the asset lister returns for the policy
    meta,             \* what the metadata API returns for each asset id
    mainPc,           \* main's position
    catalog,          \* fetch_collections' result while verify_policy_id runs
    verifyResult,     \* verify_policy_id's result: "none", "true", "false", "err"
    orchPc,           \* fetch_assets_metadata's position
    assets,           \* the PendingStack (blockfrost.rs `assets`)
    remaining_tasks,  \* blockfrost.rs `remaining_tasks`
    chan,             \* the mpsc channel: asset ids whose outcome was sent
    asset_metadata,   \* the ResultSet (blockfrost.rs `asset_metadata`)
    cur,              \* the asset the loop body is dispatching (0: none)
    permits,          \* free permits of the semaphore
    fetchSt,          \* per asset id, its fetch task
    dl,               \* per asset id, its download task
    jobs,             \* per asset id, the URL its download task was spawned with (<<>>: none)
    launched,         \* history: asset ids in the order their fetch tasks were spawned
    lastRecv,         \* history: the asset id of the last outcome received (0: none)
    lastPop,          \* history: the id popped by the last loop iteration (0: none)
    reported,         \* number of "asset: .." lines main has printed
    cancelLen         \* history: Len(asset_metadata) when the interrupt won (-1: it has not)

pvars == <<policy_id, F, D, listing, meta, mainPc, catalog, verifyResult, orchPc,
           assets, remaining_tasks, chan, asset_metadata, cur, permits, fetchSt, dl,
           jobs, launched, lastRecv, lastPop, reported, cancelLen>>

\* One call of download_and_save and the file system under output_dir.
VARIABLES
    dPc,              \* download_and_save's position ("idle": not called)
    dirExists,        \* output_dir exists
    finalOld,         \* the destination path before the call: [exists, data]
    finalIsNew,       \* the destination path names the file this call wrote
    tempLinked,       \* the temporary path exists
    inode,            \* the data of the file created at the temporary path
    body,             \* the response body, a sequence of chunks
    readerPos,        \* chunks network_reader has taken from the stream
    readerDone,       \* network_reader has ended (its sender is dropped)
    dchan,            \* the chunk channel: chunks, or 0 for an Err item
    pending,          \* the chunk of the file's in-flight blocking write (0: none)
    writeErr,         \* an in-flight write failed; the next file operation reports it
    httpRequests,     \* history: GET requests issued
    tempCreated       \* history: a temporary file was created

dvars == <<dPc, dirExists, finalOld, finalIsNew, tempLinked, inode, body, readerPos,
           readerDone, dchan, pending, writeErr, httpRequests, tempCreated>>

vars == <<pvars, dvars>>

\* No download_and_save call is modelled step by step.
DIdle ==
    /\ dPc = "idle"
    /\ dirExists = FALSE
    /\ finalOld = [exists |-> FALSE, data |-> <<>>]
    /\ finalIsNew = FALSE
    /\ tempLinked = FALSE
    /\ inode = <<>>
    /\ body = <<>>
    /\ readerPos = 0
    /\ readerDone = FALSE
    /\ dchan = <<>>
    /\ pending = 0
    /\ writeErr = FALSE
    /\ httpRequests = 0
    /\ tempCreated = FALSE

\* The asset lister's possible answers: the first n ids, in order.
Listings == {[i \in 1..n |-> i] : n \in 0..MaxAssets}

\* ---------------------------------------------------------------- main.rs
\* The state when main starts, for the lists and the metadata documents the
\* two APIs can answer with and the fetch limits the program is built with.
PInitOver(lists, docs, limits) ==
    /\ policy_id \in RequestedIds
    /\ F \in limits
    /\ D \in 1..MaxD
    /\ listing \in lists
    /\ meta \in [Range(listing) -> docs]
    /\ mainPc = "fetch_collections"
    /\ catalog = <<>>
    /\ verifyResult = "none"
    /\ orchPc = "idle"
    /\ assets = <<>>
    /\ remaining_tasks = 0
    /\ chan = <<>>
    /\ asset_metadata = <<>>
    /\ cur = 0
    /\ permits = 0
    /\ fetchSt = [i \in Range(listing) |-> "none"]
    /\ dl = [i \in Range(listing) |-> "none"]
    /\ jobs = [i \in Range(listing) |-> <<>>]
    /\ launched = <<>>
    /\ lastRecv = 0
    /\ lastPop = 0
    /\ reported = 0
    /\ cancelLen = -1

PInit == PInitOver(Listings, Docs, 1..MaxF)

\* The process runs until main returns or process::exit is called.
Alive == mainPc \in {"fetch_collections", "verify", "select"}

\* bookio.rs 39-43, 47: fetch_collections answers with the catalog or fails.
FetchCollections ==
    /\ mainPc = "fetch_collections"
    /\ \/ \E c \in SeqsUpTo(CollectionIds, MaxCatalog) :
            /\ catalog' = c
            /\ mainPc' = "verify"
            /\ UNCHANGED verifyResult
       \/ /\ verifyResult' = "err"      \* bookio.rs 55, main.rs 33-36
          /\ mainPc' = "exit1"
          /\ UNCHANGED catalog
    /\ UNCHANGED <<dvars, jobs, policy_id, F, D, listing, meta, orchPc, assets, remaining_tasks, chan,
                   asset_metadata, cur, permits, fetchSt, dl, launched, lastRecv, lastPop,
                   reported, cancelLen>>

\* bookio.rs 48-54 and main.rs 38-50, 65: on true the orchestrator task is spawned,
\* on false the process exits. The catalog is dropped when verify_policy_id returns.
VerifyPolicyId ==
    /\ mainPc = "verify"
    /\ catalog' = <<>>
    /\ IF verify_policy_id(policy_id, catalog)
       THEN /\ verifyResult' = "true"
            /\ mainPc' = "select"
            /\ orchPc' = "start"
       ELSE /\ verifyResult' = "false"
            /\ mainPc' = "exit1"
            /\ UNCHANGED orchPc
    /\ UNCHANGED <<dvars, jobs, policy_id, F, D, listing, meta, assets, remaining_tasks, chan,
                   asset_metadata, cur, permits, fetchSt, dl, launched, lastRecv, lastPop,
                   reported, cancelLen>>

\* main.rs 70-74: the completion branch prints one line per asset.
CompletedReport(result) == Len(result)

\* main.rs 79-82: the interrupt branch prints no asset.
CancelReport(result) == 0

\* MainFetchDone with the first branch still taken after the interrupt branch.
MainFetchDoneAfterCancel ==
    /\ mainPc \in {"select", "cancelled"}
    /\ \/ /\ orchPc = "returned"
          /\ reported' = CompletedReport(asset_metadata)
          /\ mainPc' = "completed"
       \/ /\ orchPc = "panicked"
          /\ mainPc' = "aborted"
          /\ UNCHANGED reported
    /\ UNCHANGED <<dvars, jobs, policy_id, F, D, listing, meta, catalog, verifyResult, orchPc, assets,
                   remaining_tasks, chan, asset_metadata, cur, permits, fetchSt, dl,
                   launched, lastRecv, lastPop, cancelLen>>

\* main.rs 68-78: the select's first branch; the task returned its ResultSet,
\* or it panicked ("fetching was aborted!").
MainFetchDone ==
    /\ mainPc = "select"
    /\ \/ /\ orchPc = "returned"
          /\ reported' = CompletedReport(asset_metadata)
          /\ mainPc' = "completed"
       \/ /\ orchPc = "panicked"
          /\ mainPc' = "aborted"
          /\ UNCHANGED reported
    /\ UNCHANGED <<dvars, jobs, policy_id, F, D, listing, meta, catalog, verifyResult, orchPc, assets,
                   remaining_tasks, chan, asset_metadata, cur, permits, fetchSt, dl,
                   launched, lastRecv, lastPop, cancelLen>>

\* Cancel with main going back to await the fetch after the interrupt.
CancelKeepsWaiting ==
    /\ mainPc = "select"
    /\ cancelLen = -1
    /\ cancelLen' = Len(asset_metadata)
    /\ UNCHANGED <<dvars, jobs, policy_id, F, D, listing, meta, mainPc, catalog, verifyResult,
                   orchPc, assets, remaining_tasks, chan, asset_metadata, cur, permits,
                   fetchSt, dl, launched, lastRecv, lastPop, reported>>

\* main.rs 79-82: the select's second branch; ctrl_c wins, main returns.
Cancel ==
    /\ mainPc = "select"
    /\ mainPc' = "cancelled"
    /\ cancelLen' = Len(asset_metadata)
    /\ reported' = CancelReport(asset_metadata)
    /\ UNCHANGED <<dvars, jobs, policy_id, F, D, listing, meta, catalog, verifyResult, orchPc, assets,
                   remaining_tasks, chan, asset_metadata, cur, permits, fetchSt, dl,
                   launched, lastRecv, lastPop>>

\* ----------------------------------------------------------- blockfrost.rs
\* blockfrost.rs 66: assets.split_off(assets.len().saturating_sub(NUM_CONCURRENT_FETCHES)),
\* the part split off (the tail of the reversed list).
InitialAssets(rev, f) == SubSeq(rev, SaturatingSub(Len(rev), f) + 1, Len(rev))

\* StackAfterSplit with the initial batch left on the stack.
StackKeepsInitial(rev, f) == rev

\* ... and the part that stays in `assets`.
StackAfterSplit(rev, f) == SubSeq(rev, 1, SaturatingSub(Len(rev), f))

\* NeedsReplacement with a replacement popped for valid outcomes too.
NeedsReplacementAlways(is_valid) == TRUE

\* NeedsReplacement with the replenishment left out.
NeedsReplacementNever(is_valid) == FALSE

\* blockfrost.rs 145: a replacement is popped only for an outcome that was not valid.
NeedsReplacement(is_valid) == ~is_valid

\* PermitFree without the semaphore: the download is spawned at once.
PermitFreeAlways(p) == TRUE

\* blockfrost.rs 120-124: acquire_owned().await resolves when a permit is free.
PermitFree(p) == p > 0

\* blockfrost.rs 157: the loop's exit test.
LoopExit(remaining) == remaining = 0

\* blockfrost.rs 59-87: the lister answers (or fails: main.rs 52-55 exits the
\* process), the list is reversed, the initial batch is split off and one fetch
\* task is spawned per id of the batch, in the batch's order.
StartPipeline ==
    /\ mainPc = "select"
    /\ orchPc = "start"
    /\ \/ /\ orchPc' = "recv"
          /\ assets' = StackAfterSplit(Reverse(listing), F)
          /\ launched' = InitialAssets(Reverse(listing), F)
          /\ remaining_tasks' = Len(launched')
          /\ fetchSt' = [i \in Range(listing) |->
                            IF i \in Range(launched') THEN "running" ELSE "none"]
          /\ permits' = D
          /\ UNCHANGED mainPc
       \/ /\ orchPc' = "error"
          /\ mainPc' = "exit1"
          /\ UNCHANGED <<assets, launched, remaining_tasks, fetchSt, permits>>
    /\ UNCHANGED <<dvars, jobs, policy_id, F, D, listing, meta, catalog, verifyResult, chan,
                   asset_metadata, cur, dl, lastRecv, lastPop, reported, cancelLen>>

\* The receiver lives as long as fetch_assets_metadata's frame.
ReceiverAlive == orchPc \in {"recv", "acquire", "join"}

\* blockfrost.rs 80-86 and 150-153: a fetch task got its answer and sends it.
\* The channel holds NUM_CONCURRENT_FETCHES outcomes; the send fails once the
\* receiver is gone.
FetchSend(i) ==
    /\ Alive
    /\ fetchSt[i] = "running"
    /\ IF ReceiverAlive
       THEN /\ Len(chan) < F
            /\ chan' = Append(chan, i)
            /\ fetchSt' = [fetchSt EXCEPT ![i] = "sent"]
       ELSE /\ fetchSt' = [fetchSt EXCEPT ![i] = "send_failed"]
            /\ UNCHANGED chan
    /\ UNCHANGED <<dvars, jobs, policy_id, F, D, listing, meta, mainPc, catalog, verifyResult, orchPc,
                   assets, remaining_tasks, asset_metadata, cur, permits, dl, launched,
                   lastRecv, lastPop, reported, cancelLen>>

\* blockfrost.rs 145-159: the tail of the loop body for an outcome that is not
\* valid, from the counter `rem` already decremented.
Replenish(rem) ==
    /\ IF NeedsReplacement(FALSE) /\ assets # <<>>
       THEN /\ assets' = SubSeq(assets, 1, Len(assets) - 1)
            /\ lastPop' = assets[Len(assets)]
            /\ remaining_tasks' = rem + 1
            /\ fetchSt' = [fetchSt EXCEPT ![Head(chan)] = "received",
                                          ![assets[Len(assets)]] = "running"]
            /\ launched' = Append(launched, assets[Len(assets)])
       ELSE /\ remaining_tasks' = rem
            /\ lastPop' = 0
            /\ fetchSt' = [fetchSt EXCEPT ![Head(chan)] = "received"]
            /\ UNCHANGED <<assets, launched>>
    /\ orchPc' = IF LoopExit(remaining_tasks') THEN "join" ELSE "recv"

\* blockfrost.rs 89-118, 145-159: one outcome is received and classified. A valid
\* one is pushed on the ResultSet and the body goes on to the permit; an invalid
\* or failed one is replenished; files[0] of an empty array panics the task.
Recv ==
    /\ Alive
    /\ orchPc = "recv"
    /\ chan # <<>>
    /\ chan' = Tail(chan)
    /\ lastRecv' = Head(chan)
    /\ LET i == Head(chan)
           rem == SaturatingSub(remaining_tasks, 1)
           verdict == Classify(meta[i])
       IN  CASE verdict = "valid" ->
                  /\ asset_metadata' = Append(asset_metadata, i)
                  /\ cur' = i
                  /\ orchPc' = "acquire"
                  /\ remaining_tasks' = rem
                  /\ lastPop' = 0
                  /\ fetchSt' = [fetchSt EXCEPT ![i] = "received"]
                  /\ UNCHANGED <<assets, launched>>
             [] verdict = "panic" ->
                  /\ orchPc' = "panicked"
                  /\ remaining_tasks' = rem
                  /\ lastPop' = 0
                  /\ fetchSt' = [fetchSt EXCEPT ![i] = "received"]
                  /\ UNCHANGED <<assets, launched, asset_metadata, cur>>
             [] OTHER ->
                  /\ Replenish(rem)
                  /\ UNCHANGED <<asset_metadata, cur>>
    /\ UNCHANGED <<dvars, jobs, policy_id, F, D, listing, meta, mainPc, catalog, verifyResult, permits,
                   dl, reported, cancelLen>>

\* blockfrost.rs 120-138, 145, 157: the permit is acquired, the download task
\* is spawned with it (Url::parse of the gateway URL does not fail), no
\* replacement is popped, and the loop's exit test runs.
Acquire ==
    /\ Alive
    /\ orchPc = "acquire"
    /\ PermitFree(permits)
    /\ permits' = permits - 1
    /\ dl' = [dl EXCEPT ![cur] = "running"]
    /\ jobs' = [jobs EXCEPT ![cur] = DownloadUrl(meta[cur])]
    /\ cur' = 0
    /\ IF NeedsReplacement(TRUE) /\ assets # <<>>
       THEN /\ assets' = SubSeq(assets, 1, Len(assets) - 1)
            /\ lastPop' = assets[Len(assets)]
            /\ remaining_tasks' = remaining_tasks + 1
            /\ fetchSt' = [fetchSt EXCEPT ![assets[Len(assets)]] = "running"]
            /\ launched' = Append(launched, assets[Len(assets)])
       ELSE UNCHANGED <<assets, lastPop, remaining_tasks, fetchSt, launched>>
    /\ orchPc' = IF LoopExit(remaining_tasks') THEN "join" ELSE "recv"
    /\ UNCHANGED <<dvars, policy_id, F, D, listing, meta, mainPc, catalog, verifyResult, chan,
                   asset_metadata, lastRecv, reported, cancelLen>>

\* DownloadEnd with a failed download propagated to the orchestrator's result.
DownloadEndPropagates(i) ==
    /\ Alive
    /\ dl[i] = "running"
    /\ permits' = permits + 1
    /\ \/ /\ dl' = [dl EXCEPT ![i] = "ok"]
          /\ UNCHANGED <<orchPc, mainPc>>
       \/ /\ dl' = [dl EXCEPT ![i] = "failed"]
          /\ orchPc' = "error"
          /\ mainPc' = "exit1"
    /\ UNCHANGED <<dvars, jobs, policy_id, F, D, listing, meta, catalog, verifyResult,
                   assets, remaining_tasks, chan, asset_metadata, cur, fetchSt, launched,
                   lastRecv, lastPop, reported, cancelLen>>

\* DownloadEnd with the permit released by a successful download only.
DownloadEndReleasesOnSuccess(i) ==
    /\ Alive
    /\ dl[i] = "running"
    /\ \E r \in {"ok", "failed"} :
          /\ dl' = [dl EXCEPT ![i] = r]
          /\ permits' = IF r = "ok" THEN permits + 1 ELSE permits
    /\ UNCHANGED <<dvars, jobs, policy_id, F, D, listing, meta, mainPc, catalog, verifyResult, orchPc,
                   assets, remaining_tasks, chan, asset_metadata, cur, fetchSt, launched,
                   lastRecv, lastPop, reported, cancelLen>>

\* DownloadEnd with the permit kept after the task has ended.
DownloadEndKeepsPermit(i) ==
    /\ Alive
    /\ dl[i] = "running"
    /\ \E r \in {"ok", "failed"} : dl' = [dl EXCEPT ![i] = r]
    /\ UNCHANGED <<dvars, jobs, policy_id, F, D, listing, meta, mainPc, catalog, verifyResult,
                   orchPc, assets, remaining_tasks, chan, asset_metadata, cur, permits,
                   fetchSt, launched, lastRecv, lastPop, reported, cancelLen>>

\* blockfrost.rs 130-136: a download task ends, with download_and_save's Ok or
\* Err (printed); its permit is dropped with it.
DownloadEnd(i) ==
    /\ Alive
    /\ dl[i] = "running"
    /\ \E r \in {"ok", "failed"} : dl' = [dl EXCEPT ![i] = r]
    /\ permits' = permits + 1
    /\ UNCHANGED <<dvars, jobs, policy_id, F, D, listing, meta, mainPc, catalog, verifyResult, orchPc,
                   assets, remaining_tasks, chan, asset_metadata, cur, fetchSt, launched,
                   lastRecv, lastPop, reported, cancelLen>>

\* JoinAll without waiting for the download tasks.
JoinAllNoWait ==
    /\ Alive
    /\ orchPc = "join"
    /\ orchPc' = "returned"
    /\ UNCHANGED <<dvars, jobs, policy_id, F, D, listing, meta, mainPc, catalog, verifyResult, assets,
                   remaining_tasks, chan, asset_metadata, cur, permits, fetchSt, dl,
                   launched, lastRecv, lastPop, reported, cancelLen>>

\* blockfrost.rs 162-164: join_all resolves when every download task has ended.
JoinAll ==
    /\ Alive
    /\ orchPc = "join"
    /\ \A i \in DOMAIN dl : dl[i] # "running"
    /\ orchPc' = "returned"
    /\ UNCHANGED <<dvars, jobs, policy_id, F, D, listing, meta, mainPc, catalog, verifyResult, assets,
                   remaining_tasks, chan, asset_metadata, cur, permits, fetchSt, dl,
                   launched, lastRecv, lastPop, reported, cancelLen>>

Step ==
    \/ FetchCollections
    \/ VerifyPolicyId
    \/ StartPipeline
    \/ \E i \in AssetIds : i \in DOMAIN fetchSt /\ FetchSend(i)
    \/ Recv
    \/ Acquire
    \/ \E i \in AssetIds : i \in DOMAIN dl /\ DownloadEnd(i)
    \/ JoinAll
    \/ MainFetchDone

Next == Step \/ Cancel

Init == PInit /\ DIdle

Spec == Init /\ [][Next]_vars

FairSpec == Init /\ [][Next]_vars /\ WF_vars(Step)

\* ---------------------------------------------- the program over source strings
MaxSrcAssets == 2

\* Source strings around the prefix: the prefix itself, cut short, preceded by
\* a character, in another case, and another scheme; each followed by an
\* identifier or by nothing.
SrcHeads ==
    {IPFS_PREFIX,
     <<>>,
     SubSeq(IPFS_PREFIX, 1, Len(IPFS_PREFIX) - 1),
     <<"Q">> \o IPFS_PREFIX,
     <<"I", "P", "F", "S", ":", "/", "/">>,
     <<"h", "t", "t", "p", ":", "/", "/">>}

SrcCids == {<<>>, <<"Q", "m">>}

Sources == {h \o c : h \in SrcHeads, c \in SrcCids}

\* The whole program again, over assets whose metadata all carry a string
\* source in their first file descriptor.
SrcDocs == {Doc("Ok", TRUE, TRUE, <<Descriptor(TRUE, src)>>) : src \in Sources}

InitSrc ==
    /\ PInitOver({l \in Listings : Len(l) <= MaxSrcAssets}, SrcDocs, 1..MaxF)
    /\ DIdle

SpecSrc == InitSrc /\ [][Next]_vars

\* ------------------------------------- the program with a wide fetch window
\* The whole program again with fetch limits up to two more than the permits,
\* so that outcomes are outstanding while every permit is held and a valid
\* outcome waits for one; the metadata are image-bearing or without files.
InitWide ==
    /\ PInitOver(Listings, {DocImage, DocNoFiles}, 1..(MaxD + 2))
    /\ DIdle

SpecWide == InitWide /\ [][Next]_vars

\* ------------------------------------------------------------- download.rs
MaxChunks == 3

\* The response bodies: n chunks, chunk k holding the data k.
Bodies == {[k \in 1..n |-> k] : n \in 0..MaxChunks}

\* What the destination path can hold before the call.
OldData == <<9>>

\* The main program is not modelled while one call is followed step by step.
PIdle ==
    /\ policy_id = "p1"
    /\ F = 1
    /\ D = 1
    /\ listing = <<>>
    /\ meta = <<>>
    /\ mainPc = "off"
    /\ catalog = <<>>
    /\ verifyResult = "none"
    /\ orchPc = "idle"
    /\ assets = <<>>
    /\ remaining_tasks = 0
    /\ chan = <<>>
    /\ asset_metadata = <<>>
    /\ cur = 0
    /\ permits = 0
    /\ fetchSt = <<>>
    /\ dl = <<>>
    /\ jobs = <<>>
    /\ launched = <<>>
    /\ lastRecv = 0
    /\ lastPop = 0
    /\ reported = 0
    /\ cancelLen = -1

\* download_and_save is called; the destination file can exist only in an
\* existing directory.
DInit ==
    /\ dPc = "start"
    /\ dirExists \in BOOLEAN
    /\ finalOld \in {[exists |-> FALSE, data |-> <<>>]} \cup
                    (IF dirExists THEN {[exists |-> TRUE, data |-> OldData]} ELSE {})
    /\ finalIsNew = FALSE
    /\ tempLinked = FALSE
    /\ inode = <<>>
    /\ body = <<>>
    /\ readerPos = 0
    /\ readerDone = FALSE
    /\ dchan = <<>>
    /\ pending = 0
    /\ writeErr = FALSE
    /\ httpRequests = 0
    /\ tempCreated = FALSE

\* DestinationExists with the check left out.
DestinationExistsNever == FALSE

\* download.rs 40: output_path.exists()
DestinationExists == finalOld.exists \/ finalIsNew

\* The data at the destination path.
FinalData == IF finalIsNew THEN inode ELSE finalOld.data

\* download.rs 67-70: the receive loop has taken every item and the sender is gone.
BodyDrained == dchan = <<>> /\ readerDone

\* tokio::fs::File::write_all resolves once the chunk is handed to a blocking
\* write; it waits only for the previous write.
WriteAccepted == pending = 0

\* download.rs 28-36: the directory is created if it is absent.
DStart ==
    /\ dPc = "start"
    /\ IF dirExists
       THEN /\ dPc' = "check_exists"
            /\ UNCHANGED dirExists
       ELSE \/ /\ dirExists' = TRUE
               /\ dPc' = "check_exists"
            \/ /\ dPc' = "err"
               /\ UNCHANGED dirExists
    /\ UNCHANGED <<pvars, finalOld, finalIsNew, tempLinked, inode, body, readerPos,
                   readerDone, dchan, pending, writeErr, httpRequests, tempCreated>>

\* download.rs 40-46, 85: an existing destination ends the call with Ok;
\* otherwise the temporary file is created (or that fails).
DCheckExists ==
    /\ dPc = "check_exists"
    /\ IF DestinationExists
       THEN /\ dPc' = "ok"
            /\ UNCHANGED <<tempLinked, tempCreated>>
       ELSE \/ /\ tempLinked' = TRUE
               /\ tempCreated' = TRUE
               /\ dPc' = "send"
            \/ /\ dPc' = "err"
               /\ UNCHANGED <<tempLinked, tempCreated>>
    /\ UNCHANGED <<pvars, dirExists, finalOld, finalIsNew, inode, body, readerPos,
                   readerDone, dchan, pending, writeErr, httpRequests>>

\* download.rs 49: the GET is sent; the response arrives or the request fails
\* (the NamedTempFile is dropped on the way out, which removes the file).
DSend ==
    /\ dPc = "send"
    /\ httpRequests' = httpRequests + 1
    /\ \/ /\ body' \in Bodies
          /\ dPc' = "create_dest"
          /\ UNCHANGED tempLinked
       \/ /\ dPc' = "err"
          /\ tempLinked' = FALSE
          /\ UNCHANGED body
    /\ UNCHANGED <<pvars, dirExists, finalOld, finalIsNew, inode, readerPos, readerDone,
                   dchan, pending, writeErr, tempCreated>>

\* download.rs 51-64: the channel is made, the temporary path is opened for
\* writing and network_reader is spawned.
DCreateDest ==
    /\ dPc = "create_dest"
    /\ \/ /\ dPc' = "stream"
          /\ inode' = <<>>
          /\ UNCHANGED tempLinked
       \/ /\ dPc' = "err"
          /\ tempLinked' = FALSE
          /\ UNCHANGED inode
    /\ UNCHANGED <<pvars, dirExists, finalOld, finalIsNew, body, readerPos, readerDone,
                   dchan, pending, writeErr, httpRequests, tempCreated>>

\* download.rs 58-64: network_reader forwards the next item of the stream, a
\* chunk or an error, or sees the stream's end and returns.
NetworkReader ==
    /\ dPc = "stream"
    /\ ~readerDone
    /\ IF readerPos < Len(body)
       THEN \/ /\ dchan' = Append(dchan, body[readerPos + 1])
               /\ readerPos' = readerPos + 1
               /\ UNCHANGED readerDone
            \/ /\ dchan' = Append(dchan, 0)
               /\ readerDone' = TRUE
               /\ UNCHANGED readerPos
       ELSE /\ readerDone' = TRUE
            /\ UNCHANGED <<dchan, readerPos>>
    /\ UNCHANGED <<pvars, dPc, dirExists, finalOld, finalIsNew, tempLinked, inode, body,
                   pending, writeErr, httpRequests, tempCreated>>

\* download.rs 67-70: one item is received; an Err item or a reported write
\* error ends the call, a chunk is handed to the file.
DWriteChunk ==
    /\ dPc = "stream"
    /\ dchan # <<>>
    /\ dchan' = Tail(dchan)
    /\ IF Head(dchan) = 0
       THEN /\ dPc' = "err"
            /\ tempLinked' = FALSE
            /\ UNCHANGED <<pending, writeErr>>
       ELSE /\ WriteAccepted
            /\ IF writeErr
               THEN /\ dPc' = "err"
                    /\ tempLinked' = FALSE
                    /\ writeErr' = FALSE
                    /\ UNCHANGED pending
               ELSE /\ pending' = Head(dchan)
                    /\ UNCHANGED <<dPc, tempLinked, writeErr>>
    /\ UNCHANGED <<pvars, dirExists, finalOld, finalIsNew, inode, body, readerPos,
                   readerDone, httpRequests, tempCreated>>

\* The blocking write of the file's buffered chunk lands in the file, under
\* whatever name the file has by then, or fails.
BlockingWrite ==
    /\ dPc \notin {"idle", "crashed"}
    /\ pending # 0
    /\ pending' = 0
    /\ \/ /\ inode' = Append(inode, pending)
          /\ UNCHANGED writeErr
       \/ /\ writeErr' = TRUE
          /\ UNCHANGED inode
    /\ UNCHANGED <<pvars, dPc, dirExists, finalOld, finalIsNew, tempLinked, body,
                   readerPos, readerDone, dchan, httpRequests, tempCreated>>

\* download.rs 67, 72: the loop ends at the channel's end and network_reader is joined.
DStreamEnd ==
    /\ dPc = "stream"
    /\ BodyDrained
    /\ dPc' = "rename"
    /\ UNCHANGED <<pvars, dirExists, finalOld, finalIsNew, tempLinked, inode, body,
                   readerPos, readerDone, dchan, pending, writeErr, httpRequests,
                   tempCreated>>

\* download.rs 79-85: the temporary path is renamed to the destination, or that fails.
DRename ==
    /\ dPc = "rename"
    /\ tempLinked' = FALSE
    /\ \/ /\ finalIsNew' = TRUE
          /\ dPc' = "ok"
       \/ /\ dPc' = "err"
          /\ UNCHANGED finalIsNew
    /\ UNCHANGED <<pvars, dirExists, finalOld, inode, body, readerPos, readerDone, dchan,
                   pending, writeErr, httpRequests, tempCreated>>

\* The process is interrupted while the call runs; nothing is cleaned up.
DCrash ==
    /\ dPc \notin {"idle", "ok", "err", "crashed"}
    /\ dPc' = "crashed"
    /\ UNCHANGED <<pvars, dirExists, finalOld, finalIsNew, tempLinked, inode, body,
                   readerPos, readerDone, dchan, pending, writeErr, httpRequests,
                   tempCreated>>

NextDL ==
    \/ DStart
    \/ DCheckExists
    \/ DSend
    \/ DCreateDest
    \/ NetworkReader
    \/ DWriteChunk
    \/ BlockingWrite
    \/ DStreamEnd
    \/ DRename
    \/ DCrash

InitDL == PIdle /\ DInit

SpecDL == InitDL /\ [][NextDL]_vars

\* ------------------------------------------------------------------ claims
ImageBearing(doc) ==
    /\ doc.res = "Ok"
    /\ doc.onchain
    /\ doc.isArray
    /\ Len(doc.files) > 0
    /\ doc.files[1].hasSrc
    /\ StartsWith(doc.files[1].src, IPFS_PREFIX)

\* Fetch tasks launched whose outcome the loop has not received.
InFlightFetches == {i \in DOMAIN fetchSt : fetchSt[i] \notin {"none", "received"}}

\* Download tasks that hold a permit.
PermitHolders == {i \in DOMAIN dl : dl[i] = "running"}

\* C1: when fetch_assets_metadata has returned without cancellation, every
\* listed asset whose metadata is image-bearing has had a download task
\* launched and is in the ResultSet.
C1_EveryImageAssetDownloaded ==
    orchPc = "returned" =>
        \A i \in Range(listing) :
            ImageBearing(meta[i]) => dl[i] # "none" /\ i \in Range(asset_metadata)

\* C2: in every reachable state the fetch tasks launched and not yet received
\* number at most F and the download tasks holding a permit at most D.
C2_ConcurrencyBounded ==
    /\ Cardinality(InFlightFetches) <= F
    /\ Cardinality(PermitHolders) <= D

\* C2 witness: every permit is held while a further valid outcome waits for one,
\* with two fetch slots.
C2_Witness ==
    /\ orchPc = "acquire"
    /\ F = 2
    /\ Cardinality(PermitHolders) = D

\* C3: once the receive loop is entered (the list was fetched), and unless
\* the operator interrupts or the task panics, fetch_assets_metadata
\* eventually returns the ResultSet, for every input list, the empty one included.
C3_EventuallyReturns ==
    (orchPc = "recv") ~> (orchPc \in {"returned", "panicked"} \/ mainPc = "cancelled")

\* A successful fetch whose metadata has no file-descriptor list, or whose
\* first descriptor has no string source.
NoFilesOrNoSrc(doc) ==
    /\ doc.res = "Ok"
    /\ \/ ~doc.onchain
       \/ ~doc.isArray
       \/ Len(doc.files) > 0 /\ ~doc.files[1].hasSrc

\* The step in which the loop receives the outcome at the channel's head.
ReceiveStep == orchPc = "recv" /\ chan # <<>> /\ chan' = Tail(chan)

\* Exactly one id, the stack's top, is popped and a fetch launched for it; or
\* the stack is empty and nothing is popped or launched.
ReplenishedByOne ==
    IF assets # <<>>
    THEN /\ assets' = SubSeq(assets, 1, Len(assets) - 1)
         /\ launched' = Append(launched, assets[Len(assets)])
         /\ fetchSt'[assets[Len(assets)]] = "running"
         /\ InFlightFetches' = (InFlightFetches \ {Head(chan)}) \cup {assets[Len(assets)]}
    ELSE /\ assets' = assets
         /\ launched' = launched
         /\ InFlightFetches' = InFlightFetches \ {Head(chan)}

\* C4: receiving a successful outcome with no file-descriptor list or no string
\* source launches no download, appends nothing to the ResultSet, and pops and
\* fetches exactly one id if the stack is non-empty (none if it is empty).
C4_MissReplenishesByOne ==
    [][(ReceiveStep /\ NoFilesOrNoSrc(meta[Head(chan)])) =>
            /\ dl' = dl
            /\ permits' = permits
            /\ asset_metadata' = asset_metadata
            /\ ReplenishedByOne]_vars

\* C4 witness: the last outcome received was such a miss and its replacement,
\* popped in that iteration, is being fetched.
C4_Witness ==
    /\ lastRecv # 0
    /\ NoFilesOrNoSrc(meta[lastRecv])
    /\ lastPop # 0
    /\ fetchSt[lastPop] \in {"running", "sent"}
    /\ asset_metadata = <<>>

\* C5: receiving a failed fetch neither stops the orchestrator with an error nor
\* panics it; the loop goes on or ends normally, nothing is added to the
\* ResultSet, no download is launched, one replacement is popped and fetched if
\* any remains, and an id once handed out is never back on the PendingStack.
C5_FetchFailureIsAMiss ==
    /\ [](\A i \in DOMAIN fetchSt : fetchSt[i] # "none" => i \notin Range(assets))
    /\ [][(ReceiveStep /\ meta[Head(chan)].res = "Err") =>
            /\ orchPc' \in {"recv", "join"}
            /\ mainPc' = mainPc
            /\ dl' = dl
            /\ asset_metadata' = asset_metadata
            /\ ReplenishedByOne]_vars

\* C5 witness: the last outcome received was a failed fetch, a replacement was
\* popped for it and the loop went on to the next receive.
C5_Witness ==
    /\ lastRecv # 0
    /\ meta[lastRecv].res = "Err"
    /\ lastPop # 0
    /\ orchPc = "recv"

\* C6: a download task's failure changes no other download task, does not
\* touch the orchestrator or the ResultSet; the orchestrator's error exit is
\* never taken once a download was launched, and every asset whose download
\* failed is in the ResultSet that is returned.
C6_DownloadFailureIsolated ==
    /\ [](orchPc = "returned" =>
            \A i \in DOMAIN dl : dl[i] = "failed" => i \in Range(asset_metadata))
    /\ [](orchPc = "error" => \A i \in DOMAIN dl : dl[i] = "none")
    /\ [][\A i \in DOMAIN dl : (dl[i] = "running" /\ dl'[i] = "failed") =>
            /\ \A j \in DOMAIN dl \ {i} : dl'[j] = dl[j]
            /\ orchPc' = orchPc
            /\ mainPc' = mainPc
            /\ asset_metadata' = asset_metadata]_vars

\* C6 witness: the run completed and reported two assets, one whose download
\* failed and one whose download succeeded.
C6_Witness ==
    /\ mainPc = "completed"
    /\ reported = 2
    /\ \E i, j \in DOMAIN dl : dl[i] = "failed" /\ dl[j] = "ok"

\* C7: if the destination file exists, the call returns Ok (unless the process
\* is interrupted first), issues no GET, creates no temporary file and leaves
\* the destination's data as it was.
C7_ExistingFileSkipped ==
    finalOld.exists =>
        /\ dPc \in {"start", "check_exists", "ok", "crashed"}
        /\ httpRequests = 0
        /\ ~tempCreated
        /\ ~tempLinked
        /\ DestinationExists
        /\ FinalData = finalOld.data

\* C7 witness: the call returned Ok over an existing destination file.
C7_Witness == finalOld.exists /\ dPc = "ok"

\* C8: whenever the destination path names the file this call wrote, that file
\* holds the complete response body.
C8_FinalNameHoldsCompleteBody == finalIsNew => FinalData = body

\* C9: verify_policy_id answers true exactly when the catalog holds the id, the
\* pipeline is started only after it answered true, and after false or an
\* error the process has exited with no fetch and no download ever launched.
C9_VerifyGatesPipeline ==
    /\ [][(mainPc = "verify" /\ mainPc' # "verify") =>
            (verifyResult' = "true" <=> policy_id \in Range(catalog))]_vars
    /\ [](orchPc # "idle" => verifyResult = "true")
    /\ [](verifyResult \in {"false", "err"} =>
            /\ mainPc = "exit1"
            /\ orchPc = "idle"
            /\ launched = <<>>
            /\ \A i \in DOMAIN dl : dl[i] = "none" /\ fetchSt[i] = "none")

\* C9 witness: the verifier answered true and the pipeline then ran a download
\* to its end.
C9_Witness ==
    /\ verifyResult = "true"
    /\ orchPc = "returned"
    /\ \E i \in DOMAIN dl : dl[i] = "ok"

\* C10: once the interrupt has won, the number of assets reported is at most
\* the number of assets appended to the ResultSet before it.
C10_CancelReportsNoMore == cancelLen # -1 => reported <= cancelLen

\* C10 witness: the interrupt won while the pipeline was still running, after
\* an asset had been validated.
C10_Witness ==
    /\ mainPc = "cancelled"
    /\ cancelLen >= 1
    /\ orchPc \in {"recv", "acquire", "join"}

\* The source string of an asset's first file descriptor.
SrcOf(i) == meta[i].files[1].src

\* What follows the first seven characters of a source string.
CidOf(i) == SubSeq(SrcOf(i), Len(IPFS_PREFIX) + 1, Len(SrcOf(i)))

\* The source is "ipfs://" followed by an identifier (possibly empty).
HasIpfsScheme(i) == SrcOf(i) = IPFS_PREFIX \o CidOf(i)

\* C11: a fetched asset with a string source is accepted exactly when the
\* source starts with "ipfs://"; its download task is then given the gateway
\* URL followed by the identifier; with any other source the asset gets no
\* ResultSet entry and no download and is replenished like any miss.
C11_SchemeDecidesAcceptance ==
    /\ [](\A i \in DOMAIN meta :
            fetchSt[i] = "received" =>
                IF HasIpfsScheme(i)
                THEN /\ i \in Range(asset_metadata)
                     /\ dl[i] # "none" => jobs[i] = IPFS_GATEWAY \o CidOf(i)
                ELSE /\ i \notin Range(asset_metadata)
                     /\ dl[i] = "none"
                     /\ jobs[i] = <<>>)
    /\ [][(ReceiveStep /\ ~HasIpfsScheme(Head(chan))) =>
            /\ orchPc' \in {"recv", "join"}
            /\ dl' = dl
            /\ permits' = permits
            /\ asset_metadata' = asset_metadata
            /\ ReplenishedByOne]_vars

\* C11 witness: an asset whose source is the prefix in capitals was rejected,
\* its replacement with source "ipfs://Qm" was accepted and its download ran
\* from the gateway URL of "Qm".
C11_Witness ==
    \E i, j \in DOMAIN meta :
        /\ fetchSt[i] = "received"
        /\ SrcOf(i) = <<"I", "P", "F", "S", ":", "/", "/", "Q", "m">>
        /\ i \notin Range(asset_metadata)
        /\ SrcOf(j) = IPFS_PREFIX \o <<"Q", "m">>
        /\ dl[j] = "ok"
        /\ jobs[j] = IPFS_GATEWAY \o <<"Q", "m">>
        /\ asset_metadata = <<j>>

\* C12: once the receive loop has ended on remaining_tasks = 0, the
\* PendingStack is empty and no fetch outcome is outstanding (no fetch task
\* runs and the channel is empty).
C12_LoopExitMeansDrained ==
    orchPc \in {"join", "returned"} =>
        /\ remaining_tasks = 0
        /\ assets = <<>>
        /\ InFlightFetches = {}
        /\ chan = <<>>

\* A successful fetch whose file-descriptor list is present and empty.
EmptyFileList(doc) ==
    doc.res = "Ok" /\ doc.onchain /\ doc.isArray /\ Len(doc.files) = 0

\* C13: receiving a successful outcome whose file-descriptor list is empty
\* leaves the orchestrator running (the loop goes on or ends normally),
\* launches no download, adds nothing to the ResultSet and replenishes from
\* the PendingStack.
C13_EmptyFileListIsAMiss ==
    [][(ReceiveStep /\ EmptyFileList(meta[Head(chan)])) =>
            /\ orchPc' \in {"recv", "join"}
            /\ dl' = dl
            /\ asset_metadata' = asset_metadata
            /\ ReplenishedByOne]_vars

\* A valid outcome waits to be dispatched and no permit is free, in a run that
\* was not cancelled.
WaitingForPermit == Alive /\ orchPc = "acquire" /\ permits = 0

\* C14: while every permit is held and a valid outcome waits to be dispatched,
\* the orchestrator can still receive the outcomes outstanding in the channel.
C14_PermitWaitDoesNotStallLoop ==
    (WaitingForPermit /\ chan # <<>>) => ENABLED Recv

\* C14 as amended: while every permit is held and a valid outcome waits to be
\* dispatched, the loop is suspended (it neither receives nor dispatches), the
\* fetch tasks still running can send their outcomes, and D download tasks
\* hold the permits, each able to end and free one.
C14_PermitWaitSuspendsLoopOnly ==
    WaitingForPermit =>
        /\ ~ENABLED Recv
        /\ ~ENABLED Acquire
        /\ \A i \in DOMAIN fetchSt : fetchSt[i] = "running" => ENABLED FetchSend(i)
        /\ Cardinality(PermitHolders) = D
        /\ \A i \in PermitHolders : ENABLED DownloadEnd(i)

\* C14 witness: a valid outcome waits for a permit while another outcome is
\* outstanding in the channel.
C14_Witness == WaitingForPermit /\ chan # <<>>

\* The download tasks that were launched, and those that have ended.
LaunchedDownloads == {i \in DOMAIN dl : dl[i] # "none"}
EndedDownloads == {i \in DOMAIN dl : dl[i] \in {"ok", "failed"}}

\* C15: the orchestrator has returned (and main has reported) only when every
\* download task it launched has ended, successfully or not.
C15_ReturnsAfterAllDownloads ==
    (orchPc = "returned" \/ mainPc = "completed") =>
        /\ LaunchedDownloads = EndedDownloads
        /\ \A i \in DOMAIN jobs : jobs[i] # <<>> => i \in EndedDownloads

\* C15 witness: the orchestrator has returned after two download tasks, one
\* ended in success and one in failure.
C15_Witness ==
    /\ orchPc = "returned"
    /\ \E i, j \in EndedDownloads : dl[i] = "ok" /\ dl[j] = "failed"

\* The semaphore has been created.
SemaphoreExists == orchPc \in {"recv", "acquire", "join", "returned", "panicked"}

\* C16: a download task is launched only by taking a free permit, it holds the
\* permit for as long as it runs and gives it back when it ends, in success or
\* in failure: the free permits plus the running download tasks always make D,
\* and once no download task runs all D permits are free.
C16_PermitHeldForWholeTask ==
    /\ [](SemaphoreExists =>
            /\ permits + Cardinality(PermitHolders) = D
            /\ (PermitHolders = {} => permits = D))
    /\ [][\A i \in DOMAIN dl :
            /\ (dl[i] = "none" /\ dl'[i] # "none") =>
                   /\ PermitFree(permits)
                   /\ dl'[i] = "running"
                   /\ permits' = permits - 1
            /\ (dl[i] = "running" /\ dl'[i] # "running") =>
                   /\ dl'[i] \in {"ok", "failed"}
                   /\ permits' = permits + 1]_vars

\* C16 witness: all D permits are free again after at least D download tasks
\* have ended, one of them in failure.
C16_Witness ==
    /\ SemaphoreExists
    /\ PermitHolders = {}
    /\ permits = D
    /\ Cardinality(EndedDownloads) >= D
    /\ \E i \in EndedDownloads : dl[i] = "failed"

\* s is t cut at its end.
IsPrefix(s, t) == Len(s) <= Len(t) /\ s = SubSeq(t, 1, Len(s))

\* No element occurs twice in s.
NoDuplicates(s) == \A i, j \in 1..Len(s) : s[i] = s[j] => i = j

\* C17: the PendingStack only shrinks, an id is handed to at most one fetch
\* task (it is off the stack once handed out), and no more fetch tasks are
\* launched than the list has ids.
C17_EachIdLaunchedAtMostOnce ==
    /\ [](/\ NoDuplicates(launched)
          /\ Range(launched) \subseteq Range(listing)
          /\ Range(launched) \cap Range(assets) = {}
          /\ Len(launched) <= Len(listing)
          /\ \A i \in DOMAIN fetchSt : fetchSt[i] # "none" <=> i \in Range(launched))
    /\ [][orchPc # "start" => IsPrefix(assets', assets)]_vars

\* C17 witness: the stack is empty after replenishments, every id of the list
\* having been handed to a fetch task.
C17_Witness ==
    /\ orchPc \in {"recv", "join", "returned"}
    /\ Len(listing) > F
    /\ assets = <<>>
    /\ Len(launched) = Len(listing)

\* C18: for every fetch limit, the k-th fetch task launched (initial batch
\* included) is for the k-th id of the list.
C18_LaunchedInListingOrder ==
    \A k \in 1..Len(launched) : launched[k] = listing[k]

\* The coordinator's states after one of its two transitions.
CoordinatorDone == mainPc \in {"completed", "cancelled"}

\* C19: the coordinator leaves Running (the select) by at most one of the two
\* transitions: the completion handling runs only in a run without interrupt
\* handling, the interrupt handling reports no ResultSet, and after either of
\* them the coordinator takes no further step.
C19_CancelAndCompleteExclusive ==
    /\ [](/\ mainPc = "completed" => cancelLen = -1
          /\ mainPc = "cancelled" => (cancelLen # -1 /\ reported = CancelReport(asset_metadata)))
    /\ [][/\ (mainPc' # mainPc /\ mainPc' \in {"completed", "cancelled"}) => mainPc = "select"
          /\ CoordinatorDone => (mainPc' = mainPc /\ cancelLen' = cancelLen /\ reported' = reported)]_vars

\* C19 witness: the interrupt won the race although the fetch had already
\* returned a non-empty ResultSet; the completion handling stays undone.
C19_Witness ==
    /\ mainPc = "cancelled"
    /\ orchPc = "returned"
    /\ asset_metadata # <<>>

\* The fetch tasks launched whose outcome the orchestrator has not received.
FetchesInFlight == {i \in DOMAIN fetchSt : fetchSt[i] \in {"running", "sent"}}

\* The smaller of two numbers.
Min(a, b) == IF a <= b THEN a ELSE b

LoopTopOrExit == orchPc \in {"recv", "join", "returned"}

\* C21: at the top of every iteration and at loop exit remaining_tasks is the
\* number of fetch tasks launched whose outcome was not yet received; at loop
\* exit no fetch task runs or holds an unsent outcome and the channel is
\* empty; and no fetch task ever sends on a channel whose receiver is gone.
C21_CounterMatchesFetchesInFlight ==
    /\ LoopTopOrExit => remaining_tasks = Cardinality(FetchesInFlight)
    /\ orchPc \in {"join", "returned"} =>
           /\ remaining_tasks = 0
           /\ FetchesInFlight = {}
           /\ chan = <<>>
    /\ \A i \in DOMAIN fetchSt : fetchSt[i] # "send_failed"

====
